---------------------------- MODULE Spec2Model ----------------------------
(***************************************************************************)
(* Model of ExpenseTracker (src/tracker.py): the merchant categorizer      *)
(* (exact lookup, approximate reconciliation, persistence of the mapping)  *)
(* and the category aggregator (family assignment, grouped sums and        *)
(* percentages).                                                           *)
(*                                                                         *)
(* process_transactions is a straight line of statements; the model has    *)
(* one action per statement (l.47, l.50-56, l.59, l.62), and the call of   *)
(* process_unrecognized_merchants at l.59 is one action per iteration of   *)
(* its outer loop followed by one action for the write and the report      *)
(* (l.151-157).  pc is the position in that straight line.                 *)
(***************************************************************************)
EXTENDS Integers, Sequences, FiniteSets, TLC

VARIABLES
    files,                            \* the file system: path -> content of a JSON mapping file
    merchant_mapping_arg,             \* __init__'s argument merchant_mapping (a path)
    merchant_mapping,                 \* self.merchant_mapping (an insertion-ordered dict)
    expense_category_family_mapping,  \* self.expense_category_family_mapping
    statement,                        \* self.statement, the rows of the data frame
    unrecognized_merchants,           \* the local set of process_transactions
    pending,                          \* what the iterator of `for merchant in merchants` has left
    still_unrecognized,               \* the local list of process_unrecognized_merchants
    by_family,                        \* what get_expenses_by_category_families returned
    by_category,                      \* the "Extended view" of make_reports
    pc

vars == <<files, merchant_mapping_arg, merchant_mapping,
          expense_category_family_mapping, statement, unrecognized_merchants,
          pending, still_unrecognized, by_family, by_category, pc>>

----------------------------------------------------------------------------
(* Bounds of the model *)

MaxRows == 2      \* rows of the statement
MaxKeys == 2      \* entries of the merchant mapping file
MaxDebit == 2     \* largest "Debit Amount"

----------------------------------------------------------------------------
(* Strings.  A merchant description is a sequence of characters, so that   *)
(* str.lower and fuzz.ratio are computed, not assumed.                     *)

Lower(c) ==
    CASE c = "A" -> "a"
      [] c = "B" -> "b"
      [] c = "C" -> "c"
      [] OTHER -> c

lower(s) == [i \in 1..Len(s) |-> Lower(s[i])]

Names ==
    { <<"a", "b">>,
      <<"a", "b", "c">>,
      <<"A", "B", "C">>,
      <<"a", "b", "c", "d">>,
      <<"x", "y">> }

Categories == {"Coffee", "Food"}

None == "None"            \* Python's None / pandas' null
NoColumn == "NoColumn"    \* the row has no such column

MERCHANT_MAPPING == "merchant_category_mapping.json"
OtherMapping == "my_mapping.json"
Paths == {MERCHANT_MAPPING, OtherMapping}

Max(a, b) == IF a >= b THEN a ELSE b

\* length of the longest common subsequence of s[1..i] and t[1..j]
RECURSIVE LCS(_, _, _, _)
LCS(s, t, i, j) ==
    IF i = 0 \/ j = 0 THEN 0
    ELSE IF s[i] = t[j] THEN 1 + LCS(s, t, i - 1, j - 1)
    ELSE Max(LCS(s, t, i - 1, j), LCS(s, t, i, j - 1))

\* Python's round(): to the nearest integer, a tie to the even one
RoundHalfEven(num, den) ==
    LET q == num \div den
        r == num % den
    IN  IF 2 * r > den THEN q + 1
        ELSE IF 2 * r < den THEN q
        ELSE IF q % 2 = 0 THEN q ELSE q + 1

\* fuzz.ratio(s, t): 0 for an empty string, else int(round(100 * 2M / T)),
\* M the matched characters and T the two lengths together.  M is the
\* longest common subsequence; on Names the matching blocks of difflib, the
\* library's other backend, count the same characters.
ratio(s, t) ==
    IF Len(s) = 0 \/ Len(t) = 0 THEN 0
    ELSE RoundHalfEven(200 * LCS(s, t, Len(s), Len(t)), Len(s) + Len(t))

----------------------------------------------------------------------------
(* Dicts and JSON files.  A dict keeps its keys in insertion order; a file *)
(* holds the object's members one after the other.                         *)

EmptyDict == [order |-> <<>>, get |-> <<>>]

Keys(d) == {d.order[i] : i \in 1..Len(d.order)}

\* dict.get(k): None for a missing key
DictGet(d, k) == IF k \in Keys(d) THEN d.get[k] ELSE None

\* dict.update({k: v}): a new key goes last, a present key keeps its place
DictUpdate(d, k, v) ==
    [order |-> IF k \in Keys(d) THEN d.order ELSE Append(d.order, k),
     get   |-> [x \in Keys(d) \cup {k} |-> IF x = k THEN v ELSE d.get[x]]]

\* json.load: the members in file order, a repeated key keeps the last value
RECURSIVE JsonLoadUpTo(_, _)
JsonLoadUpTo(f, n) ==
    IF n = 0 THEN EmptyDict
    ELSE DictUpdate(JsonLoadUpTo(f, n - 1), f[n][1], f[n][2])

JsonLoad(f) == JsonLoadUpTo(f, Len(f))

\* json.dump: one member per key, in the dict's order
JsonDump(d) == [i \in 1..Len(d.order) |-> <<d.order[i], d.get[d.order[i]]>>]


NoFile == [exists |-> FALSE, members |-> <<>>]
File(members) == [exists |-> TRUE, members |-> members]

----------------------------------------------------------------------------
(* Rows of the statement.  Category is None where the lookup found         *)
(* nothing; Family is NoColumn while the row has no "Category Family".     *)

Row(description, debit) ==
    [Description |-> description, Debit |-> debit,
     Category |-> NoColumn, Family |-> NoColumn]

Range(s) == {s[i] : i \in 1..Len(s)}

\* a lookup that ignores case
add_merchant_category_nocase(row) ==
    LET same == {i \in 1..Len(merchant_mapping.order) :
                    lower(merchant_mapping.order[i]) = lower(row.Description)}
    IN  [row EXCEPT !.Category =
            IF same = {} THEN None
            ELSE merchant_mapping.get[merchant_mapping.order[
                    CHOOSE i \in same : \A j \in same : i <= j]]]

\* l.132-135
add_merchant_category(row) ==
    [row EXCEPT !.Category = DictGet(merchant_mapping, row.Description)]

Threshold == 80

\* a test that leaves out the score 80 itself
IsMatchAbove(merchant, mapped_merchant) ==
    ratio(lower(merchant), lower(mapped_merchant)) > 80

\* l.142: the test of the inner loop
IsMatch(merchant, mapped_merchant) ==
    ratio(lower(merchant), lower(mapped_merchant)) >= Threshold

\* a loop that keeps the key of the highest score
BestMatchedMerchant(mapping, merchant) ==
    LET hits == {i \in 1..Len(mapping.order) : IsMatch(merchant, mapping.order[i])}
        score(i) == ratio(lower(merchant), lower(mapping.order[i]))
    IN  IF hits = {} THEN 0
        ELSE CHOOSE i \in hits :
                \A j \in hits : score(i) > score(j) \/ (score(i) = score(j) /\ i <= j)

\* l.141-147: the inner loop stops at the first key that passes the test;
\* the position of that key in the dict, 0 when the loop runs to its end
MatchedMerchant(mapping, merchant) ==
    LET hits == {i \in 1..Len(mapping.order) : IsMatch(merchant, mapping.order[i])}
    IN  IF hits = {} THEN 0
        ELSE CHOOSE i \in hits : \A j \in hits : i <= j

\* l.140-149: the body of the outer loop for one merchant,
\* <<the mapping afterwards, merchant_matched>>
ProcessMerchant(mapping, merchant) ==
    LET i == MatchedMerchant(mapping, merchant)
    IN  IF i = 0 THEN <<mapping, FALSE>>
        ELSE <<DictUpdate(mapping, merchant, mapping.get[mapping.order[i]]), TRUE>>

DefaultFamily == "Wants"

\* l.160-165: the loop over the families from the i-th on.  A family that
\* does not list the category sets the default and goes on; the one that
\* lists it sets itself and breaks.
RECURSIVE FamilyLoop(_, _, _)
FamilyLoop(row, mapping, i) ==
    IF i > Len(mapping) THEN row
    ELSE IF row.Category \in Range(mapping[i][2])
         THEN [row EXCEPT !.Family = mapping[i][1]]
         ELSE FamilyLoop([row EXCEPT !.Family = DefaultFamily], mapping, i + 1)

\* l.159-166
add_category_family(row) == FamilyLoop(row, expense_category_family_mapping, 1)

----------------------------------------------------------------------------
(* Aggregation.  groupby sorts the group keys ascending and leaves out the *)
(* rows whose key is null; the lists below are the names in that order.    *)

SortedFamilies == <<"Needs", "Savings", "Wants">>
SortedCategories == <<"Coffee", "Food">>

RECURSIVE SumDebit(_, _)
SumDebit(df, n) == IF n = 0 THEN 0 ELSE SumDebit(df, n - 1) + df[n].Debit

\* df.groupby([column]).sum()["Debit Amount"].reset_index()
GroupSums(df, column, sorted) ==
    LET present(k) == \E i \in 1..Len(df) : df[i][column] = k
        keys == SelectSeq(sorted, present)
        of(k) == SelectSeq(df, LAMBDA r : r[column] = k)
    IN  [g \in 1..Len(keys) |->
            [key |-> keys[g], total |-> SumDebit(of(keys[g]), Len(of(keys[g])))]]

RECURSIVE SumTotals(_, _)
SumTotals(rows, n) == IF n = 0 THEN 0 ELSE SumTotals(rows, n - 1) + rows[n].total

\* l.104-106: round(x / sum * 100, 0); the float division gives NaN for 0/0
Percentage(total, sum) ==
    IF sum = 0 THEN [nan |-> TRUE, value |-> 0]
    ELSE [nan |-> FALSE, value |-> RoundHalfEven(100 * total, sum)]

\* percentages cut off instead of rounded
get_expenses_truncating(df) ==
    IF \E i \in 1..Len(df) : df[i].Family = NoColumn
    THEN [error |-> "KeyError", rows |-> <<>>]
    ELSE LET groups == GroupSums(df, "Family", SortedFamilies)
             sum == SumTotals(groups, Len(groups))
         IN  [error |-> "",
              rows |-> [g \in 1..Len(groups) |->
                          [key |-> groups[g].key, total |-> groups[g].total,
                           Percentage |->
                              IF sum = 0 THEN [nan |-> TRUE, value |-> 0]
                              ELSE [nan |-> FALSE,
                                    value |-> (100 * groups[g].total) \div sum]]]]

\* l.97-107; groupby raises KeyError when the frame has no "Category Family"
get_expenses_by_category_families(df) ==
    IF \E i \in 1..Len(df) : df[i].Family = NoColumn
    THEN [error |-> "KeyError", rows |-> <<>>]
    ELSE LET groups == GroupSums(df, "Family", SortedFamilies)
             sum == SumTotals(groups, Len(groups))
         IN  [error |-> "",
              rows |-> [g \in 1..Len(groups) |->
                          [key |-> groups[g].key, total |-> groups[g].total,
                           Percentage |-> Percentage(groups[g].total, sum)]]]

\* l.87-91
expenses_by_category(df) ==
    [error |-> "", rows |-> GroupSums(df, "Category", SortedCategories)]

NotComputed == [error |-> "not computed", rows |-> <<>>]

----------------------------------------------------------------------------
(* The operations *)

\* l.47
Categorize ==
    /\ pc = "constructed"
    /\ statement' = [i \in 1..Len(statement) |-> add_merchant_category(statement[i])]
    /\ pc' = "categorized"
    /\ UNCHANGED <<files, merchant_mapping_arg, merchant_mapping,
                   expense_category_family_mapping, unrecognized_merchants,
                   pending, still_unrecognized, by_family, by_category>>

\* l.50-56, and the entry of process_unrecognized_merchants (l.138)
CollectUnrecognized ==
    /\ pc = "categorized"
    /\ LET merchants == {statement[i].Description :
                            i \in {j \in 1..Len(statement) : statement[j].Category = None}}
       IN  /\ unrecognized_merchants' = merchants
           /\ pending' = merchants
    /\ still_unrecognized' = <<>>
    /\ pc' = "reconciling"
    /\ UNCHANGED <<files, merchant_mapping_arg, merchant_mapping,
                   expense_category_family_mapping, statement, by_family, by_category>>

\* l.139-149: one iteration of the outer loop.  The merchants are a set of
\* strings, which Python iterates in an order that depends on the hash seed
\* of the run: the next merchant is any of those left.
ReconcileStep ==
    /\ pc = "reconciling"
    /\ \E merchant \in pending :
          LET r == ProcessMerchant(merchant_mapping, merchant)
          IN  /\ merchant_mapping' = r[1]
              /\ still_unrecognized' =
                    IF r[2] THEN still_unrecognized
                    ELSE Append(still_unrecognized, merchant)
              /\ pending' = pending \ {merchant}
    /\ UNCHANGED <<files, merchant_mapping_arg, expense_category_family_mapping,
                   statement, unrecognized_merchants, by_family, by_category, pc>>

\* l.151-157: the mapping is written to MERCHANT_MAPPING
ReconcileFinish ==
    /\ pc = "reconciling"
    /\ pending = {}
    /\ files' = [files EXCEPT ![MERCHANT_MAPPING] = File(JsonDump(merchant_mapping))]
    /\ pc' = "reconciled"
    /\ UNCHANGED <<merchant_mapping_arg, merchant_mapping,
                   expense_category_family_mapping, statement, unrecognized_merchants,
                   pending, still_unrecognized, by_family, by_category>>

\* l.62
AddCategoryFamilies ==
    /\ pc = "reconciled"
    /\ statement' = [i \in 1..Len(statement) |-> add_category_family(statement[i])]
    /\ pc' = "processed"
    /\ UNCHANGED <<files, merchant_mapping_arg, merchant_mapping,
                   expense_category_family_mapping, unrecognized_merchants,
                   pending, still_unrecognized, by_family, by_category>>

\* l.64-94: the two views of the report; the by-family view is computed
\* first, and its exception leaves the other view uncomputed
MakeReports ==
    /\ pc = "processed"
    /\ by_family' = get_expenses_by_category_families(statement)
    /\ by_category' = IF by_family'.error = "" THEN expenses_by_category(statement)
                      ELSE NotComputed
    /\ pc' = "reported"
    /\ UNCHANGED <<files, merchant_mapping_arg, merchant_mapping,
                   expense_category_family_mapping, statement, unrecognized_merchants,
                   pending, still_unrecognized>>

Next ==
    \/ Categorize
    \/ CollectUnrecognized
    \/ ReconcileStep
    \/ ReconcileFinish
    \/ AddCategoryFamilies
    \/ MakeReports

----------------------------------------------------------------------------
(* Inputs *)

\* the sequences over S of the lengths from lo to hi
SeqsOf(S, lo, hi) == UNION {[1..n -> S] : n \in lo..hi}

\* the merchants a mapping file may list; <<"x", "y">> is on statements only
KnownNames == Names \ {<<"x", "y">>}

\* mapping files: at most MaxKeys members, no key twice
MappingFiles ==
    {f \in SeqsOf(KnownNames \X Categories, 0, MaxKeys) :
        \A i, j \in 1..Len(f) : f[i][1] = f[j][1] => i = j}

FamilyMappings ==
    { <<>>,
      << <<"Needs", <<"Food">>>> >>,
      << <<"Needs", <<"Food">>>>, <<"Savings", <<"Food", "Coffee">>>> >>,
      << <<"Wants", <<"Coffee">>>>, <<"Needs", <<"Food">>>> >>,
      << <<"Savings", <<"Coffee">>>>, <<"Needs", <<"Coffee", "Food">>>> >> }

\* l.16-34: the state after __init__, for the mapping file at path
Constructed(path, mapping_file, family_mapping, rows) ==
    /\ files = [p \in Paths |-> IF p = path THEN File(mapping_file) ELSE NoFile]
    /\ merchant_mapping_arg = path
    /\ merchant_mapping = JsonLoad(files[path].members)
    /\ expense_category_family_mapping = family_mapping
    /\ statement = rows
    /\ unrecognized_merchants = {}
    /\ pending = {}
    /\ still_unrecognized = <<>>
    /\ by_family = NotComputed
    /\ by_category = NotComputed
    /\ pc = "constructed"

\* the categorizer's inputs: every mapping file, either path, every statement
Init ==
    \E path \in Paths, f \in MappingFiles,
       ds \in SeqsOf(Names, 1, MaxRows) :
        Constructed(path, f, << <<"Needs", <<"Food">>>> >>,
                    [i \in 1..Len(ds) |-> Row(ds[i], 1)])

Spec == Init /\ [][Next]_vars

\* the aggregator's inputs: every family mapping, every statement with its amounts
InitAggregator ==
    \E fm \in FamilyMappings,
       rows \in SeqsOf({Row(d, a) : d \in Names, a \in 0..MaxDebit}, 1, MaxRows) :
        Constructed(MERCHANT_MAPPING,
                    << << <<"a", "b">>, "Coffee">>, << <<"A", "B", "C">>, "Food">> >>,
                    fm, rows)

SpecAggregator == InitAggregator /\ [][Next]_vars

----------------------------------------------------------------------------
(* Vocabulary of the properties *)

Score(a, b) == ratio(lower(a), lower(b))

\* the merchant the step from this state to the next has processed
Processed == CHOOSE m \in pending : m \notin pending'

ReconcileStepTaken == pc = "reconciling" /\ pending' # pending

\* the positions of the keys that score 80 or more against merchant m
Candidates(mapping, m) == {i \in 1..Len(mapping.order) : Score(m, mapping.order[i]) >= 80}

Earliest(S) == CHOOSE i \in S : \A j \in S : i <= j

PositionOf(mapping, k) == CHOOSE i \in 1..Len(mapping.order) : mapping.order[i] = k

\* the merchants this run has added to the mapping
Learned == (unrecognized_merchants \ pending) \cap Keys(merchant_mapping)

RECURSIVE SumOf(_, _)
SumOf(amount, S) ==
    IF S = {} THEN 0
    ELSE LET i == CHOOSE x \in S : TRUE IN amount[i] + SumOf(amount, S \ {i})

Debits == [i \in 1..Len(statement) |-> statement[i].Debit]
GrandTotal == SumOf(Debits, 1..Len(statement))
TotalsOf(view) == SumOf([g \in 1..Len(view.rows) |-> view.rows[g].total],
                        1..Len(view.rows))

\* the position of a family name in ascending order of the names
Alphabetical(name) ==
    CASE name = "Needs" -> 1 [] name = "Savings" -> 2 [] name = "Wants" -> 3

----------------------------------------------------------------------------
(* C1: after add_merchant_category every row's category is the mapping's   *)
(* value for the key that equals the row's description character by        *)
(* character, and is unset when no key does; each row's category depends   *)
(* on that row and the mapping alone, so not on the order of the rows.     *)
C1_ExactLookup ==
    pc = "categorized" =>
        \A i \in 1..Len(statement) :
            LET d == statement[i].Description
                at == {k \in 1..Len(merchant_mapping.order) : merchant_mapping.order[k] = d}
            IN  /\ at # {} => \A k \in at :
                        statement[i].Category = merchant_mapping.get[merchant_mapping.order[k]]
                /\ at = {} => statement[i].Category = None

\* a row found by its exact key, next to a row that differs from a key in
\* case only and is left unset
C1_Witness ==
    /\ pc = "categorized"
    /\ \E i, j \in 1..Len(statement) :
          /\ statement[i].Category \in Categories
          /\ statement[j].Category = None
          /\ \E k \in Keys(merchant_mapping) :
                lower(k) = lower(statement[j].Description)

(* C2: when two or more keys score 80 or more against the merchant being   *)
(* reconciled, the merchant enters the mapping with the category of the    *)
(* earliest of them in the mapping's order.                                *)
C2_FirstMatchWins ==
    [][ReconcileStepTaken =>
        LET m == Processed
            hits == Candidates(merchant_mapping, m)
        IN  Cardinality(hits) >= 2 =>
               /\ m \in Keys(merchant_mapping')
               /\ merchant_mapping'.get[m] =
                     merchant_mapping.get[merchant_mapping.order[Earliest(hits)]]
               /\ \A k \in Keys(merchant_mapping) :
                     merchant_mapping'.get[k] = merchant_mapping.get[k]]_vars

\* a learned merchant that took the category of an earlier key although a
\* later key, of another category, scores higher
C2_Witness ==
    \E m \in Learned :
        LET p == PositionOf(merchant_mapping, m)
        IN  \E i, j \in 1..(p - 1) :
              /\ i < j
              /\ Score(m, merchant_mapping.order[i]) >= 80
              /\ Score(m, merchant_mapping.order[j]) > Score(m, merchant_mapping.order[i])
              /\ merchant_mapping.get[merchant_mapping.order[i]] #
                    merchant_mapping.get[merchant_mapping.order[j]]
              /\ merchant_mapping.get[m] = merchant_mapping.get[merchant_mapping.order[i]]

(* C3: the merchant being reconciled enters the mapping if and only if a   *)
(* key of the mapping at that moment scores 80 or more against it; one     *)
(* whose every score is below 80 leaves the mapping as it was and is       *)
(* appended to the still-unrecognized list.                                *)
C3_Threshold ==
    [][ReconcileStepTaken =>
        LET m == Processed
            matched == \E k \in Keys(merchant_mapping) : Score(m, k) >= 80
        IN  /\ m \in Keys(merchant_mapping') <=> matched
            /\ matched => still_unrecognized' = still_unrecognized
            /\ ~matched => /\ merchant_mapping' = merchant_mapping
                           /\ still_unrecognized' = Append(still_unrecognized, m)]_vars

\* a merchant learned on a score of exactly 80, and another one, with a
\* positive score below 80, reported as still unrecognized
C3_Witness ==
    /\ pc = "reconciled"
    /\ \E m \in Learned :
          LET p == PositionOf(merchant_mapping, m)
          IN  /\ \E i \in 1..(p - 1) : Score(m, merchant_mapping.order[i]) = 80
              /\ \A i \in 1..(p - 1) : Score(m, merchant_mapping.order[i]) <= 80
    /\ \E u \in Range(still_unrecognized) :
          /\ u \notin Keys(merchant_mapping)
          /\ \E k \in Keys(merchant_mapping) : Score(u, k) \in 1..79

\* the explicit procedure: the first family, in the mapping's order, whose
\* list has the category, and the default when the families are exhausted
RECURSIVE FirstFamilyFrom(_, _, _)
FirstFamilyFrom(mapping, category, i) ==
    IF i > Len(mapping) THEN DefaultFamily
    ELSE IF \E c \in 1..Len(mapping[i][2]) : mapping[i][2][c] = category
         THEN mapping[i][1]
         ELSE FirstFamilyFrom(mapping, category, i + 1)

(* C4: for every family mapping, the empty one included, after             *)
(* add_category_family every row's family is the first family whose list   *)
(* has the row's category, and "Wants" when none has it.                   *)
C4_FamilyIsFirstMatchElseDefault ==
    pc \in {"processed", "reported"} =>
        \A i \in 1..Len(statement) :
            statement[i].Family =
                FirstFamilyFrom(expense_category_family_mapping, statement[i].Category, 1)

\* what does hold: the same, for a mapping of at least one family
C4_HoldsWithSomeFamily ==
    (pc \in {"processed", "reported"} /\ Len(expense_category_family_mapping) > 0) =>
        \A i \in 1..Len(statement) :
            statement[i].Family =
                FirstFamilyFrom(expense_category_family_mapping, statement[i].Category, 1)

(* C5: after the run a row whose merchant matched no key, exactly or       *)
(* approximately, has no category and the family "Wants", the by-family    *)
(* view counts it under "Wants", the by-category view counts it too, and   *)
(* the totals of either view add up to the grand total of the debits.      *)
(* Stated for the family mappings of at least one family, where every row  *)
(* does get a family (C4).                                                 *)
C5_UnmatchedCountedInEveryView ==
    (pc = "reported" /\ Len(expense_category_family_mapping) > 0) =>
        \A i \in 1..Len(statement) :
            statement[i].Description \in Range(still_unrecognized) =>
                /\ statement[i].Category = None
                /\ statement[i].Family = DefaultFamily
                /\ by_family.error = ""
                /\ \E g \in 1..Len(by_family.rows) :
                      /\ by_family.rows[g].key = DefaultFamily
                      /\ by_family.rows[g].total >= statement[i].Debit
                /\ TotalsOf(by_family) = GrandTotal
                /\ by_category.error = ""
                /\ TotalsOf(by_category) = GrandTotal

\* what does hold of the by-family view once it is computed
C5_ByFamilyCountsAll ==
    (pc = "reported" /\ by_family.error = "") =>
        /\ TotalsOf(by_family) = GrandTotal
        /\ \A i \in 1..Len(statement) :
              statement[i].Description \in Range(still_unrecognized) =>
                  /\ statement[i].Category = None
                  /\ statement[i].Family = DefaultFamily

(* C6: with a grand total of zero the by-family view of a frame that has   *)
(* its families gives every row a percentage that is a number, namely 0.   *)
C6_ZeroTotalGivesZeroPercent ==
    (pc = "reported" /\ by_family.error = "" /\ GrandTotal = 0) =>
        \A g \in 1..Len(by_family.rows) :
            /\ ~by_family.rows[g].Percentage.nan
            /\ by_family.rows[g].Percentage.value = 0

(* C7: after reconciliation, loading the file the engine was constructed   *)
(* with gives the mapping held in memory: every original and every learned *)
(* entry, each with its category.                                          *)
C7_ReloadGivesMapping ==
    pc \in {"reconciled", "processed", "reported"} =>
        /\ files[merchant_mapping_arg].exists
        /\ LET reloaded == JsonLoad(files[merchant_mapping_arg].members)
           IN  /\ Keys(reloaded) = Keys(merchant_mapping)
               /\ \A k \in Keys(merchant_mapping) :
                     reloaded.get[k] = merchant_mapping.get[k]

\* what does hold: the file written, MERCHANT_MAPPING, loads as the mapping
C7_WrittenFileGivesMapping ==
    pc \in {"reconciled", "processed", "reported"} =>
        /\ files[MERCHANT_MAPPING].exists
        /\ JsonLoad(files[MERCHANT_MAPPING].members) = merchant_mapping

\* the orders in which a set can be gone through
Orders(S) == {o \in [1..Cardinality(S) -> S] : \A x \in S : \E i \in DOMAIN o : o[i] = x}

\* the mapping and the still-unrecognized set after the first n merchants of an order
RECURSIVE ReconcileInOrder(_, _, _)
ReconcileInOrder(mapping, order, n) ==
    IF n = 0 THEN [mapping |-> mapping, still |-> {}]
    ELSE LET before == ReconcileInOrder(mapping, order, n - 1)
             hits == Candidates(before.mapping, order[n])
         IN  IF hits = {}
             THEN [mapping |-> before.mapping, still |-> before.still \cup {order[n]}]
             ELSE [mapping |-> DictUpdate(before.mapping, order[n],
                                  before.mapping.get[before.mapping.order[Earliest(hits)]]),
                   still |-> before.still]

(* C8: at the end of the loop of process_unrecognized_merchants the        *)
(* mapping (its keys and their categories) and the set of still            *)
(* unrecognized merchants are what every order of going through the        *)
(* unrecognized merchants gives from the mapping that was loaded.          *)
C8_OrderIndependent ==
    (pc = "reconciling" /\ pending = {}) =>
        \A o \in Orders(unrecognized_merchants) :
            LET r == ReconcileInOrder(JsonLoad(files[merchant_mapping_arg].members),
                                      o, Len(o))
            IN  /\ Keys(r.mapping) = Keys(merchant_mapping)
                /\ \A k \in Keys(merchant_mapping) :
                      r.mapping.get[k] = merchant_mapping.get[k]
                /\ r.still = Range(still_unrecognized)

\* what does hold: the result is what the order taken gives
C8_SomeOrderGivesResult ==
    (pc = "reconciling" /\ pending = {}) =>
        \E o \in Orders(unrecognized_merchants) :
            LET r == ReconcileInOrder(JsonLoad(files[merchant_mapping_arg].members),
                                      o, Len(o))
            IN  /\ r.mapping = merchant_mapping
                /\ r.still = Range(still_unrecognized)

(* C9: for a statement with a positive grand total whose rows have their   *)
(* families, the by-family view has one row per family present, in         *)
(* ascending order of the names; a row's total is the sum of the debits of *)
(* its family and its percentage is the whole number in 0..100 nearest to  *)
(* total / grand total * 100.                                              *)
C9_ByFamilyRows ==
    (pc = "reported" /\ by_family.error = "" /\ GrandTotal > 0) =>
        LET rows == by_family.rows
        IN  /\ {rows[g].key : g \in 1..Len(rows)} =
                  {statement[i].Family : i \in 1..Len(statement)}
            /\ \A g, h \in 1..Len(rows) :
                  g < h => Alphabetical(rows[g].key) < Alphabetical(rows[h].key)
            /\ \A g \in 1..Len(rows) :
                  LET total == SumOf(Debits, {i \in 1..Len(statement) :
                                                statement[i].Family = rows[g].key})
                      p == rows[g].Percentage
                  IN  /\ rows[g].total = total
                      /\ ~p.nan
                      /\ p.value \in 0..100
                      /\ 2 * (p.value * GrandTotal - 100 * total) <= GrandTotal
                      /\ 2 * (100 * total - p.value * GrandTotal) <= GrandTotal

\* two families, out of the mapping's order, with percentages that needed rounding
C9_Witness ==
    /\ pc = "reported"
    /\ by_family.error = ""
    /\ GrandTotal > 0
    /\ Len(by_family.rows) >= 2
    /\ \E g \in 1..Len(by_family.rows) :
          by_family.rows[g].Percentage.value * GrandTotal # 100 * by_family.rows[g].total
    /\ Len(expense_category_family_mapping) = 2
    /\ Alphabetical(expense_category_family_mapping[1][1]) >
          Alphabetical(expense_category_family_mapping[2][1])
    /\ \A f \in 1..2 : \E i \in 1..Len(statement) :
          statement[i].Family = expense_category_family_mapping[f][1]

(* C10: reconciliation leaves the categories of the rows alone, so a row   *)
(* whose merchant this run added to the mapping still has no category at   *)
(* the end of the run and has the family "Wants".                          *)
C10_LearnedStaysUnsetAndWants ==
    pc \in {"processed", "reported"} =>
        \A i \in 1..Len(statement) :
            statement[i].Description \in Learned =>
                /\ statement[i].Category = None
                /\ statement[i].Family = DefaultFamily

\* what does hold: the rows are the same before and after reconciliation,
\* and a learned merchant's rows have no category at the end of the run
C10_CategoriesKept ==
    /\ [][pc = "reconciling" => statement' = statement]_vars
    /\ [](pc \in {"processed", "reported"} =>
            \A i \in 1..Len(statement) :
                statement[i].Description \in Learned => statement[i].Category = None)

============================================================================
